---- MODULE Spec2Model ----
(***************************************************************************)
(* A model of tz_info.py: class TZInfo, the decoder of TZif time-zone      *)
(* files (read_header, read_data_block, read) and the queries on a decoded *)
(* object (get_transition_index, the local-time-type accessors,            *)
(* utoff_strftime).                                                        *)
(*                                                                         *)
(* Bytes are the integers 0..255 and a bytes object is a sequence of them. *)
(* A Python value whose type matters to a comparison is a record           *)
(* [type, val]: the code compares a one-byte bytes object with the int 0,  *)
(* and Python's == between values of different types is False.             *)
(***************************************************************************)
EXTENDS Integers, Sequences, FiniteSets

VARIABLES
    self,             \* the TZInfo object: its instance fields
    buf,              \* the bytes handed to the last read() / read_header()
    op,               \* the method called last
    outcome,          \* "ok": it returned, "error": it raised, "running"
    ret,              \* the integer it returned
    text,             \* the string it returned (utoff_strftime)
    arg,              \* its integer argument: timestamp, trans_idx or utoff
    column,           \* get_local_time_type_field's column
    local_time_type,  \* get_local_time_type_field's local of that name
    begin,            \* __search_transition_index: the current call's begin
    end,              \* __search_transition_index: the current call's end
    depth,            \* nesting depth of the current call (1: the outermost)
    caller_span,      \* end - begin of the call that made the current call
    read_idx          \* indices of transition_times the current call has read

vars == <<self, buf, op, outcome, ret, text, arg, column, local_time_type,
          begin, end, depth, caller_span, read_idx>>

----------------------------------------------------------------------------
(* Python values *)

PyInt(n) == [type |-> "int", val |-> <<n>>]

PyBytes(bs) == [type |-> "bytes", val |-> bs]

PyTuple(xs) == [type |-> "tuple", val |-> xs]

None == [type |-> "NoneType", val |-> <<>>]

\* Python's ==: values of different types are never equal.
PyEq(a, b) == a.type = b.type /\ a.val = b.val

Min(a, b) == IF a < b THEN a ELSE b

\* mem[a:b] for 0 <= a, 0 <= b: clipped to the object, never an error.
Slice(mem, a, b) == SubSeq(mem, a + 1, Min(b, Len(mem)))

\* mem[a:]
SliceFrom(mem, a) == SubSeq(mem, a + 1, Len(mem))

----------------------------------------------------------------------------
(* struct: big-endian decoding *)

RECURSIVE be_uint(_)
be_uint(bs) ==
    IF bs = <<>> THEN 0
    ELSE be_uint(SubSeq(bs, 1, Len(bs) - 1)) * 256 + bs[Len(bs)]

\* two's complement: a set top bit means -(~bits + 1)
be_int(bs) ==
    IF bs[1] >= 128
    THEN -(be_uint([i \in 1..Len(bs) |-> 255 - bs[i]]) + 1)
    ELSE be_uint(bs)

\* struct.unpack("{n}B", bs): raises unless len(bs) == n
unpack_B_ok(n, bs) == Len(bs) = n

\* struct.unpack("!{n}l" / "!{n}q", bs) with size the item width
unpack_ints_ok(n, size, bs) == Len(bs) = n * size

unpack_ints(n, size, bs) ==
    [i \in 1..n |-> be_int(SubSeq(bs, (i - 1) * size + 1, i * size))]

\* struct.unpack("!lBB", bs)
unpack_lBB_ok(bs) == Len(bs) = 6

unpack_lBB(bs) == <<be_int(SubSeq(bs, 1, 4)), bs[5], bs[6]>>

\* struct.unpack("!ll" / "!ql", bs) with size the width of the first item
unpack_leap_ok(size, bs) == Len(bs) = size + 4

unpack_leap(size, bs) ==
    <<be_int(SubSeq(bs, 1, size)), be_int(SubSeq(bs, size + 1, size + 4))>>

----------------------------------------------------------------------------
(* class TZInfo *)

HEADER_LEN == 44

MAGIC == <<84, 90, 105, 102>>      \* b'TZif'

VER_2 == 50                        \* ord('2')

VER_3 == 51                        \* ord('3')

LOCAL_TIME_TYPE_FIELD_UTOFF == 0

LOCAL_TIME_TYPE_FIELD_ISDST == 1

LOCAL_TIME_TYPE_FIELD_DESIG_IDX == 2

\* the object __init__ leaves
NewTZInfo ==
    [version |-> PyInt(0),
     isutcnt |-> 0, isstdcnt |-> 0, leapcnt |-> 0,
     timecnt |-> 0, typecnt |-> 0, charcnt |-> 0,
     transition_times |-> None,
     transition_types |-> None,
     local_time_type_records |-> None,
     time_zone_designations |-> None,
     leap_seconds_records |-> None,
     standard_wall_indicators |-> None,
     ut_local_indicators |-> None,
     tz_strings |-> None]

\* struct.unpack(HEADER_UNPACK_FMT, mem): "!4sc15xIIIIII", 44 bytes exactly
header_unpack_ok(mem) == Len(mem) = HEADER_LEN

header_unpack(mem) ==
    [magic    |-> PyBytes(SubSeq(mem, 1, 4)),
     ver      |-> PyBytes(SubSeq(mem, 5, 5)),      \* 'c': a bytes of length 1
     isutcnt  |-> be_uint(SubSeq(mem, 21, 24)),
     isstdcnt |-> be_uint(SubSeq(mem, 25, 28)),
     leapcnt  |-> be_uint(SubSeq(mem, 29, 32)),
     timecnt  |-> be_uint(SubSeq(mem, 33, 36)),
     typecnt  |-> be_uint(SubSeq(mem, 37, 40)),
     charcnt  |-> be_uint(SubSeq(mem, 41, 44))]

\* assert ver == 0 or ver == b'2' or ver == b'3'
version_accepted(ver) ==
    PyEq(ver, PyInt(0)) \/ PyEq(ver, PyBytes(<<VER_2>>)) \/ PyEq(ver, PyBytes(<<VER_3>>))

\* the four asserts of read_header
header_asserts(h) ==
    /\ PyEq(h.magic, PyBytes(MAGIC))
    /\ version_accepted(h.ver)
    /\ (h.isutcnt = 0 \/ h.isutcnt = h.typecnt)
    /\ (h.isstdcnt = 0 \/ h.isstdcnt = h.typecnt)

\* read_header(self, mem): [ok, self]; a raise leaves the object as it was
read_header(s, mem) ==
    IF ~header_unpack_ok(mem) THEN [ok |-> FALSE, self |-> s]
    ELSE LET h == header_unpack(mem) IN
         IF ~header_asserts(h) THEN [ok |-> FALSE, self |-> s]
         ELSE [ok |-> TRUE,
               self |-> [s EXCEPT !.version = h.ver,
                                  !.isutcnt = h.isutcnt,
                                  !.isstdcnt = h.isstdcnt,
                                  !.leapcnt = h.leapcnt,
                                  !.timecnt = h.timecnt,
                                  !.typecnt = h.typecnt,
                                  !.charcnt = h.charcnt]]

\* get_data_block_len(self, data_block_ver): data_block_ver a Python value
get_data_block_len(s, data_block_ver) ==
    LET TIME_SIZE == IF PyEq(data_block_ver, PyInt(1)) THEN 4 ELSE 8 IN
    s.timecnt * TIME_SIZE + s.timecnt + s.typecnt * 6 + s.charcnt
      + s.leapcnt * (TIME_SIZE + 4) + s.isstdcnt + s.isutcnt

\* TIME_SIZE of read_data_block
time_size(s) == IF PyEq(s.version, PyInt(0)) THEN 4 ELSE 8

(* read_data_block, one step per `if` of the code.  A step takes and gives
   [ok, self, mem_idx]; once a step has raised, the later ones do nothing. *)

\* if self.timecnt: transition times, then transition types
rdb_transitions(st, mem) ==
    LET s == st.self
        n == s.timecnt
        size == time_size(s)
        tbytes == Slice(mem, 0, n * size)
        s1 == [s EXCEPT !.transition_times = PyTuple(unpack_ints(n, size, tbytes))]
        idx1 == st.mem_idx + n * size
        ybytes == Slice(mem, idx1, idx1 + n)
    IN  IF ~st.ok \/ n = 0 THEN st
        ELSE IF ~unpack_ints_ok(n, size, tbytes) THEN [st EXCEPT !.ok = FALSE]
        ELSE IF ~unpack_B_ok(n, ybytes)
             THEN [ok |-> FALSE, self |-> s1, mem_idx |-> idx1]
        ELSE [ok |-> TRUE,
              self |-> [s1 EXCEPT !.transition_types = PyTuple(ybytes)],
              mem_idx |-> idx1 + n]

\* if self.typecnt: the local time type records
rdb_types(st, mem) ==
    LET s == st.self
        n == s.typecnt
        region == Slice(mem, st.mem_idx, st.mem_idx + n * 6)
        rec(i) == Slice(region, i * 6, i * 6 + 6)
    IN  IF ~st.ok \/ n = 0 THEN st
        ELSE IF \E i \in 0..(n - 1) : ~unpack_lBB_ok(rec(i))
             THEN [st EXCEPT !.ok = FALSE, !.mem_idx = @ + n * 6]
        ELSE [ok |-> TRUE,
              self |-> [s EXCEPT !.local_time_type_records =
                            PyTuple([i \in 1..n |-> unpack_lBB(rec(i - 1))])],
              mem_idx |-> st.mem_idx + n * 6]

\* if self.charcnt: the designations, a plain slice
rdb_designations(st, mem) ==
    LET s == st.self
        n == s.charcnt
    IN  IF ~st.ok \/ n = 0 THEN st
        ELSE [ok |-> TRUE,
              self |-> [s EXCEPT !.time_zone_designations =
                            PyBytes(Slice(mem, st.mem_idx, st.mem_idx + n))],
              mem_idx |-> st.mem_idx + n]

\* if self.leapcnt: the leap-second records
rdb_leap(st, mem) ==
    LET s == st.self
        n == s.leapcnt
        size == time_size(s)
        region == Slice(mem, st.mem_idx, st.mem_idx + n * (size + 4))
        rec(i) == Slice(region, i * (size + 4), i * (size + 4) + (size + 4))
    IN  IF ~st.ok \/ n = 0 THEN st
        ELSE IF \E i \in 0..(n - 1) : ~unpack_leap_ok(size, rec(i))
             THEN [st EXCEPT !.ok = FALSE]
        ELSE [ok |-> TRUE,
              self |-> [s EXCEPT !.leap_seconds_records =
                            PyTuple([i \in 1..n |-> unpack_leap(size, rec(i - 1))])],
              mem_idx |-> st.mem_idx + n * (size + 4)]

\* if self.isstdcnt: the standard/wall indicators
rdb_isstd(st, mem) ==
    LET s == st.self
        n == s.isstdcnt
        bs == Slice(mem, st.mem_idx, st.mem_idx + n)
    IN  IF ~st.ok \/ n = 0 THEN st
        ELSE IF ~unpack_B_ok(n, bs) THEN [st EXCEPT !.ok = FALSE]
        ELSE [ok |-> TRUE,
              self |-> [s EXCEPT !.standard_wall_indicators = PyTuple(bs)],
              mem_idx |-> st.mem_idx + n]

\* if self.isutcnt: the UT/local indicators
rdb_isut(st, mem) ==
    LET s == st.self
        n == s.isutcnt
        bs == Slice(mem, st.mem_idx, st.mem_idx + n)
    IN  IF ~st.ok \/ n = 0 THEN st
        ELSE IF ~unpack_B_ok(n, bs) THEN [st EXCEPT !.ok = FALSE]
        ELSE [st EXCEPT !.self = [s EXCEPT !.ut_local_indicators = PyTuple(bs)]]

\* read_data_block(self, mem): [ok, self, mem_idx]
read_data_block(s, mem) ==
    rdb_isut(rdb_isstd(rdb_leap(rdb_designations(rdb_types(rdb_transitions(
        [ok |-> TRUE, self |-> s, mem_idx |-> 0], mem), mem), mem), mem), mem), mem)

\* read_footer(self, buf)
read_footer(s, b) == [s EXCEPT !.tz_strings = PyBytes(b)]

\* the second half of read(): the branch taken when self.version != 0
read_extended(s1, b, end1) ==
    LET begin2 == end1
        end2 == end1 + HEADER_LEN
        r2 == read_header(s1, Slice(b, begin2, end2))
        end3 == end2 + get_data_block_len(r2.self, r2.self.version)
        r3 == read_data_block(r2.self, Slice(b, end2, end3))
    IN  IF ~r2.ok THEN [ok |-> FALSE, self |-> s1]
        ELSE IF ~r3.ok THEN [ok |-> FALSE, self |-> r3.self]
        ELSE [ok |-> TRUE, self |-> read_footer(r3.self, SliceFrom(b, end3))]

\* read(self) on a file holding the bytes b: [ok, self]
read(s, b) ==
    IF ~(Len(b) > HEADER_LEN) THEN [ok |-> FALSE, self |-> s]
    ELSE LET r1 == read_header(s, Slice(b, 0, HEADER_LEN))
             end1 == HEADER_LEN + get_data_block_len(r1.self, PyInt(1))
         IN  IF ~r1.ok THEN [ok |-> FALSE, self |-> s]
             ELSE IF PyEq(r1.self.version, PyInt(0))
                  THEN LET r == read_data_block(r1.self, Slice(b, HEADER_LEN, end1))
                       IN  [ok |-> r.ok, self |-> r.self]
             ELSE read_extended(r1.self, b, end1)

----------------------------------------------------------------------------
(* Queries on the object *)

\* seq[i] on a Python value: a TypeError on None, an IndexError outside
\* -len..len-1; a negative index counts from the end
PyIndexOk(seq, i) == seq.type # "NoneType" /\ -Len(seq.val) <= i /\ i < Len(seq.val)

PyIndex(seq, i) == IF i >= 0 THEN seq.val[i + 1] ELSE seq.val[Len(seq.val) + i + 1]

\* what one call does: return a value, raise, or call itself
Return(v, reads) == [kind |-> "return", value |-> v, begin |-> 0, end |-> 0, reads |-> reads]

Raise(reads) == [kind |-> "raise", value |-> 0, begin |-> 0, end |-> 0, reads |-> reads]

Recurse(b, e, reads) == [kind |-> "call", value |-> 0, begin |-> b, end |-> e, reads |-> reads]

\* the bisection point taken at the low end of the range
Mid_low(b, e) == b

\* mid = int((begin + end) / 2)
Mid(b, e) == (b + e) \div 2

\* the two-element range answered with its low end whatever the timestamp
search_pair_low(s, t, b, e, reads) ==
    IF ~PyIndexOk(s.transition_times, e) THEN Raise(reads \cup {e})
    ELSE Return(b, reads \cup {e})

\* if (begin + 1) == end: the two-element range
search_pair(s, t, b, e, reads) ==
    IF ~PyIndexOk(s.transition_times, e) THEN Raise(reads \cup {e})
    ELSE IF t < PyIndex(s.transition_times, e) THEN Return(b, reads \cup {e})
    ELSE Return(e, reads \cup {e})

\* the bisection on mid
search_bisect(s, t, b, e, reads) ==
    LET mid == Mid(b, e) IN
    IF ~PyIndexOk(s.transition_times, mid) THEN Raise(reads \cup {mid})
    ELSE IF t < PyIndex(s.transition_times, mid) THEN Recurse(b, mid - 1, reads \cup {mid})
    ELSE IF t > PyIndex(s.transition_times, mid) THEN Recurse(mid, e, reads \cup {mid})
    ELSE Return(mid, reads \cup {mid})

\* one call of __search_transition_index(timestamp, begin, end)
search_transition_index(s, t, b, e) ==
    LET last == s.timecnt - 1 IN
    IF ~PyIndexOk(s.transition_times, last) THEN Raise({last})
    ELSE IF t >= PyIndex(s.transition_times, last) THEN Return(last, {last})
    ELSE IF ~PyIndexOk(s.transition_times, 0) THEN Raise({last, 0})
    ELSE IF t < PyIndex(s.transition_times, 0) THEN Return(-1, {last, 0})
    ELSE IF b + 1 = e THEN search_pair(s, t, b, e, {last, 0})
    ELSE IF b = e THEN Return(b, {last, 0})
    ELSE search_bisect(s, t, b, e, {last, 0})

\* get_local_time_type(trans_idx): [ok, value], value None or a record
get_local_time_type(s, trans_idx) ==
    IF s.timecnt = 0 THEN [ok |-> TRUE, value |-> None]
    ELSE IF ~(0 <= trans_idx /\ trans_idx <= s.timecnt - 1) THEN [ok |-> FALSE, value |-> None]
    ELSE IF ~PyIndexOk(s.transition_types, trans_idx) THEN [ok |-> FALSE, value |-> None]
    ELSE LET type_index == PyIndex(s.transition_types, trans_idx) IN
         IF ~(0 <= type_index /\ type_index <= s.typecnt - 1) THEN [ok |-> FALSE, value |-> None]
         ELSE IF ~PyIndexOk(s.local_time_type_records, type_index)
              THEN [ok |-> FALSE, value |-> None]
         ELSE [ok |-> TRUE,
               value |-> PyTuple(PyIndex(s.local_time_type_records, type_index))]

\* get_local_time_type_field(trans_idx, column): [ok, ltt, value]
get_local_time_type_field(s, trans_idx, col) ==
    IF ~(LOCAL_TIME_TYPE_FIELD_UTOFF <= col /\ col <= LOCAL_TIME_TYPE_FIELD_DESIG_IDX)
    THEN [ok |-> FALSE, ltt |-> None, value |-> 0]
    ELSE LET r == get_local_time_type(s, trans_idx) IN
         IF ~r.ok THEN [ok |-> FALSE, ltt |-> None, value |-> 0]
         ELSE IF PyEq(r.value, None) THEN [ok |-> TRUE, ltt |-> None, value |-> 0]
         ELSE [ok |-> TRUE, ltt |-> r.value, value |-> PyIndex(r.value, col)]

\* time.gmtime(secs): the time of day of the instant, secs counted from the
\* epoch (floor division: an instant before the epoch is a time of the day
\* before)
gmtime(secs) ==
    LET sod == secs % 86400 IN
    [tm_hour |-> sod \div 3600, tm_min |-> (sod \div 60) % 60, tm_sec |-> sod % 60]

DigitChars == <<"0", "1", "2", "3", "4", "5", "6", "7", "8", "9">>

\* a strftime field of two digits, zero padded
TwoDigits(n) == <<DigitChars[(n \div 10) + 1], DigitChars[(n % 10) + 1]>>

\* time.strftime("%H:%M:%S", tm)
strftime_HMS(tm) ==
    TwoDigits(tm.tm_hour) \o <<":">> \o TwoDigits(tm.tm_min) \o <<":">> \o TwoDigits(tm.tm_sec)

\* utoff_strftime(utoff): a string as the sequence of its characters
utoff_strftime(utoff) ==
    <<IF utoff < 0 THEN "-" ELSE "+">> \o strftime_HMS(gmtime(utoff))

----------------------------------------------------------------------------
(* The files read() is given: TZif files as zic lays them out, a first
   header and 32-bit data block, a second header and 64-bit data block and a
   footer, whole or cut short, with well-formed and ill-formed headers. *)

MaxCount == 1        \* each header count of the second header is in 0..MaxCount

MaxFill == 1         \* type and designation indices written into the block

MaxFooter == 2       \* length of the footer

BAD_MAGIC == <<84, 90, 105, 70>>   \* b'TZiF'

VER_LEGACY == 0                    \* the NUL version byte of a version-1 file

VER_1 == VER_2 - 1                 \* ord('1'), not a TZif version

RECURSIVE enc_uint(_, _)
enc_uint(n, size) ==
    IF size = 0 THEN <<>> ELSE Append(enc_uint(n \div 256, size - 1), n % 256)

\* big-endian two's complement of v in size bytes
enc_int(v, size) ==
    IF v >= 0 THEN enc_uint(v, size)
    ELSE LET c == enc_uint(-v - 1, size) IN [i \in 1..size |-> 255 - c[i]]

RECURSIVE Concat(_)
Concat(ss) == IF ss = <<>> THEN <<>> ELSE Head(ss) \o Concat(Tail(ss))

Zeros(n) == [i \in 1..n |-> 0]

Counts(ut, std, leap, time, type, char) ==
    [isutcnt |-> ut, isstdcnt |-> std, leapcnt |-> leap,
     timecnt |-> time, typecnt |-> type, charcnt |-> char]

\* the 44 bytes HEADER_UNPACK_FMT decodes
HeaderBytes(magic, ver, c) ==
    magic \o <<ver>> \o Zeros(15)
      \o enc_uint(c.isutcnt, 4) \o enc_uint(c.isstdcnt, 4) \o enc_uint(c.leapcnt, 4)
      \o enc_uint(c.timecnt, 4) \o enc_uint(c.typecnt, 4) \o enc_uint(c.charcnt, 4)

TimeAt(i) == i * 2 - 1              \* -1, 1, 3, ...

UtoffAt(i) == (i - 1) * 3600        \* -3600, 0, 3600, ...

\* a data block for the counts c with time values of `size` bytes; every
\* transition type and every designation index is `fill`
BlockBytes(c, size, fill) ==
    Concat([i \in 1..c.timecnt |-> enc_int(TimeAt(i - 1), size)])
      \o [i \in 1..c.timecnt |-> fill]
      \o Concat([i \in 1..c.typecnt |->
                    enc_int(UtoffAt(i - 1), 4) \o <<(i - 1) % 2, fill>>])
      \o [i \in 1..c.charcnt |-> 64 + i]
      \o Concat([i \in 1..c.leapcnt |-> enc_int(1000 + i, size) \o enc_int(i, 4)])
      \o [i \in 1..c.isstdcnt |-> 1]
      \o [i \in 1..c.isutcnt |-> 1]

Footer == [i \in 1..MaxFooter |-> 10]

\* the whole file of the parameters p
FileBytes(p) ==
    HeaderBytes(p.magic1, p.ver1, p.cnt1) \o BlockBytes(p.cnt1, 4, 0)
      \o HeaderBytes(p.magic2, p.ver2, p.cnt2) \o BlockBytes(p.cnt2, 8, p.fill)
      \o Footer

ZeroCounts == Counts(0, 0, 0, 0, 0, 0)

OneEach == Counts(1, 1, 1, 1, 1, 1)

AllCounts ==
    {Counts(ut, std, leap, time, type, char) :
        ut \in 0..MaxCount, std \in 0..MaxCount, leap \in 0..MaxCount,
        time \in 0..MaxCount, type \in 0..MaxCount, char \in 0..MaxCount}

\* files that differ in their headers' magic, version and count consistency
HeaderFocus ==
    [magic1 : {MAGIC, BAD_MAGIC}, ver1 : {VER_LEGACY, VER_1, VER_2, VER_3},
     cnt1 : {ZeroCounts, OneEach, Counts(1, 0, 0, 0, 0, 0)},
     magic2 : {MAGIC, BAD_MAGIC}, ver2 : {VER_LEGACY, VER_1, VER_2, VER_3},
     cnt2 : {OneEach}, fill : {0}, cuts : {FALSE}]

\* extended-format files with every combination of second-header counts, cut
\* at every length
BlockFocus ==
    [magic1 : {MAGIC}, ver1 : {VER_2, VER_3}, cnt1 : {ZeroCounts, OneEach},
     magic2 : {MAGIC}, ver2 : {VER_2}, cnt2 : AllCounts,
     fill : 0..MaxFill, cuts : {TRUE}]

FileParams == HeaderFocus \cup BlockFocus

CutPoints(p) == IF p.cuts THEN 0..Len(FileBytes(p)) ELSE {Len(FileBytes(p))}

\* the 44-byte headers read_header is given
Headers ==
    {HeaderBytes(m, v, Counts(ut, std, 0, time, type, char)) :
        m \in {MAGIC, BAD_MAGIC}, v \in {VER_LEGACY, VER_1, VER_2, VER_3},
        ut \in 0..MaxCount + 1, std \in 0..MaxCount + 1, time \in 0..MaxCount,
        type \in 0..MaxCount + 1, char \in 0..MaxCount}

----------------------------------------------------------------------------
(* The decoder: one object per file *)

NoCall ==
    /\ ret = 0 /\ text = <<>> /\ arg = 0 /\ column = 0
    /\ local_time_type = None
    /\ begin = 0 /\ end = 0 /\ depth = 0 /\ caller_span = 0 /\ read_idx = {}

Init ==
    /\ self = NewTZInfo
    /\ buf = <<>>
    /\ op = "__init__"
    /\ outcome = "ok"
    /\ NoCall

unchanged_query == <<ret, text, arg, column, local_time_type,
                     begin, end, depth, caller_span, read_idx>>

\* TZInfo(tz): a new object
Construct ==
    /\ op # "__init__"
    /\ outcome # "running"
    /\ self' = NewTZInfo
    /\ buf' = <<>>
    /\ op' = "__init__"
    /\ outcome' = "ok"
    /\ ret' = 0 /\ text' = <<>> /\ arg' = 0 /\ column' = 0
    /\ local_time_type' = None
    /\ begin' = 0 /\ end' = 0 /\ depth' = 0 /\ caller_span' = 0 /\ read_idx' = {}

\* read() on a new object, the file holding the bytes b
Read ==
    /\ op = "__init__"
    /\ \E p \in FileParams : \E k \in CutPoints(p) :
          LET b == Slice(FileBytes(p), 0, k)
              r == read(self, b)
          IN  /\ self' = r.self
              /\ buf' = b
              /\ outcome' = IF r.ok THEN "ok" ELSE "error"
    /\ op' = "read"
    /\ UNCHANGED unchanged_query

\* read_header(mem) on a new object
ReadHeader ==
    /\ op = "__init__"
    /\ \E mem \in Headers :
          LET r == read_header(self, mem)
          IN  /\ self' = r.self
              /\ buf' = mem
              /\ outcome' = IF r.ok THEN "ok" ELSE "error"
    /\ op' = "read_header"
    /\ UNCHANGED unchanged_query

MaxDepth == 6        \* the deepest call of __search_transition_index followed

\* the timestamps asked of a decoded file: around its first transition
FileTimestamps == {TimeAt(0) - 1, TimeAt(0), TimeAt(0) + 1}

\* get_transition_index(timestamp) up to its call of __search_transition_index
GetTransitionIndex(T) ==
    /\ outcome # "running"
    /\ \E t \in T : arg' = t
    /\ op' = "get_transition_index"
    /\ IF self.timecnt = 0
       THEN /\ outcome' = "ok"
            /\ ret' = -1
            /\ begin' = 0 /\ end' = 0 /\ depth' = 0
       ELSE /\ outcome' = "running"
            /\ ret' = 0
            /\ begin' = 0 /\ end' = self.timecnt - 1 /\ depth' = 1
    /\ caller_span' = 0
    /\ read_idx' = {}
    /\ UNCHANGED <<self, buf, text, column, local_time_type>>

\* one call of __search_transition_index: it returns, raises or calls itself
SearchStep ==
    /\ outcome = "running"
    /\ depth <= MaxDepth
    /\ LET r == search_transition_index(self, arg, begin, end) IN
       /\ read_idx' = r.reads
       /\ IF r.kind = "call"
          THEN /\ begin' = r.begin /\ end' = r.end
               /\ depth' = depth + 1
               /\ caller_span' = end - begin
               /\ UNCHANGED <<outcome, ret>>
          ELSE /\ outcome' = IF r.kind = "return" THEN "ok" ELSE "error"
               /\ ret' = r.value
               /\ UNCHANGED <<begin, end, depth, caller_span>>
    /\ UNCHANGED <<self, buf, op, text, arg, column, local_time_type>>

\* an accessor called on the index get_transition_index has just returned
Accessor(name, col) ==
    /\ op = "get_transition_index"
    /\ outcome = "ok"
    /\ LET r == get_local_time_type_field(self, ret, col) IN
       /\ outcome' = IF r.ok THEN "ok" ELSE "error"
       /\ local_time_type' = r.ltt
       /\ ret' = r.value
    /\ op' = name
    /\ arg' = ret
    /\ column' = col
    /\ UNCHANGED <<self, buf, text, begin, end, depth, caller_span, read_idx>>

GetTransitionOffset == Accessor("get_transition_offset", LOCAL_TIME_TYPE_FIELD_UTOFF)

GetTransitionIsdst == Accessor("get_transition_isdst", LOCAL_TIME_TYPE_FIELD_ISDST)

GetTransitionDesigIndex ==
    Accessor("get_transition_desig_index", LOCAL_TIME_TYPE_FIELD_DESIG_IDX)

Next ==
    \/ Construct
    \/ Read
    \/ ReadHeader
    \/ GetTransitionIndex(FileTimestamps)
    \/ SearchStep
    \/ GetTransitionOffset
    \/ GetTransitionIsdst
    \/ GetTransitionDesigIndex

Spec == Init /\ [][Next]_vars

----------------------------------------------------------------------------
(* The search alone, on decoded objects with every transition table *)

MaxTimecnt == 5      \* the longest transition table

MaxTime == 4         \* transition times are in 0..MaxTime

MaxLongTable == 16   \* the longest of the tables 0, 2, 4, ...

\* every short table, sorted or not
ShortTables == UNION {[1..n -> 0..MaxTime] : n \in 0..MaxTimecnt}

\* long strictly ascending tables with a gap between neighbours
LongTables == {[i \in 1..n |-> 2 * (i - 1)] : n \in 1..MaxLongTable}

Tables == ShortTables \cup LongTables

SeqMax(xs) == CHOOSE m \in {xs[i] : i \in 1..Len(xs)} : \A i \in 1..Len(xs) : xs[i] <= m

\* the timestamps asked of the table: from below its least possible time to
\* above its greatest
Timestamps ==
    IF self.timecnt = 0 THEN -1..1
    ELSE -1..(SeqMax(self.transition_times.val) + 1)

\* the object read() leaves for an extended file with the transition times
\* `times`, two local time types used in turn, and no leap seconds
DecodedObject(times) ==
    LET n == Len(times) IN
    [version |-> PyBytes(<<VER_2>>),
     isutcnt |-> 0, isstdcnt |-> 0, leapcnt |-> 0,
     timecnt |-> n, typecnt |-> 2, charcnt |-> 1,
     transition_times |-> IF n = 0 THEN None ELSE PyTuple(times),
     transition_types |-> IF n = 0 THEN None ELSE PyTuple([i \in 1..n |-> (i - 1) % 2]),
     local_time_type_records |-> PyTuple(<<<<UtoffAt(0), 0, 0>>, <<UtoffAt(1), 1, 0>>>>),
     time_zone_designations |-> PyBytes(<<0>>),
     leap_seconds_records |-> None,
     standard_wall_indicators |-> None,
     ut_local_indicators |-> None,
     tz_strings |-> PyBytes(Footer)]

InitSearch ==
    /\ \E times \in Tables : self = DecodedObject(times)
    /\ buf = <<>>
    /\ op = "read"
    /\ outcome = "ok"
    /\ NoCall

NextSearch == GetTransitionIndex(Timestamps) \/ SearchStep

SpecSearch == InitSearch /\ [][NextSearch]_vars

----------------------------------------------------------------------------
(* The offset formatter alone *)

MaxHours == 26       \* offsets are up to MaxHours hours either way

Utoffs ==
    {sign * (h * 3600 + m * 60 + sec) :
        sign \in {-1, 1}, h \in 0..MaxHours, m \in {0, 30, 59}, sec \in {0, 1, 59}}

UtoffStrftime ==
    /\ \E u \in Utoffs :
          /\ arg' = u
          /\ text' = utoff_strftime(u)
    /\ op' = "utoff_strftime"
    /\ outcome' = "ok"
    /\ UNCHANGED <<self, buf, ret, column, local_time_type,
                   begin, end, depth, caller_span, read_idx>>

NextFmt == UtoffStrftime

SpecFmt == Init /\ [][NextFmt]_vars

----------------------------------------------------------------------------
(* Claims about the decoder, checked under Spec *)

\* the data-block length the format prescribes for counts c and a time width
BlockLen(c, width) ==
    c.timecnt * width + c.timecnt + c.typecnt * 6 + c.charcnt
      + c.leapcnt * (width + 4) + c.isstdcnt + c.isutcnt

\* what a 44-byte header must satisfy to be accepted, read off its bytes
HeaderWellFormed(mem) ==
    LET h == header_unpack(mem) IN
    /\ SubSeq(mem, 1, 4) = MAGIC
    /\ mem[5] \in {VER_LEGACY, VER_2, VER_3}
    /\ h.isutcnt \in {0, h.typecnt}
    /\ h.isstdcnt \in {0, h.typecnt}

\* offset of the second header in the file b: 44 + len4(H1)
SecondHeaderAt(b) == HEADER_LEN + BlockLen(header_unpack(SubSeq(b, 1, HEADER_LEN)), 4)

\* b holds a well-formed first header of version '2' or '3' and, after the
\* first data block, a whole well-formed second header
TwoHeaders(b) ==
    /\ Len(b) > HEADER_LEN
    /\ HeaderWellFormed(SubSeq(b, 1, HEADER_LEN))
    /\ b[5] \in {VER_2, VER_3}
    /\ Len(b) >= SecondHeaderAt(b) + HEADER_LEN
    /\ HeaderWellFormed(SubSeq(b, SecondHeaderAt(b) + 1, SecondHeaderAt(b) + HEADER_LEN))

SecondHeader(b) == header_unpack(SubSeq(b, SecondHeaderAt(b) + 1, SecondHeaderAt(b) + HEADER_LEN))

\* offset of the second data block, and the offset just after it
SecondBlockAt(b) == SecondHeaderAt(b) + HEADER_LEN

SecondBlockEnd(b) == SecondBlockAt(b) + BlockLen(SecondHeader(b), 8)

\* C4: read() fails on every file whose second data block region is shorter
\* than timecnt*8 + timecnt + typecnt*6 + charcnt + leapcnt*12 + isstdcnt +
\* isutcnt, whatever the counts and wherever the file ends.
C4_TruncatedBlockFails ==
    (op = "read" /\ TwoHeaders(buf) /\ Len(buf) < SecondBlockEnd(buf))
        => outcome = "error"

\* C5: a read() that fails leaves the object's counts, version and arrays as
\* they were before the call.
C5_FailedReadLeavesObject ==
    [][(op' = "read" /\ outcome' = "error") => self' = self]_vars

\* C6: read_header accepts a 44-byte header exactly when its magic is 'TZif',
\* its version byte is NUL, '2' or '3', and isutcnt and isstdcnt are each 0 or
\* typecnt; an accepted header's version and six counts are stored.
C6_HeaderAcceptedIffWellFormed ==
    (op = "read_header" /\ Len(buf) = HEADER_LEN) =>
        /\ (outcome = "ok") <=> HeaderWellFormed(buf)
        /\ outcome = "ok" =>
              LET h == header_unpack(buf) IN
              /\ self.version = h.ver
              /\ self.isutcnt = h.isutcnt /\ self.isstdcnt = h.isstdcnt
              /\ self.leapcnt = h.leapcnt /\ self.timecnt = h.timecnt
              /\ self.typecnt = h.typecnt /\ self.charcnt = h.charcnt

\* C7: after a successful read() every transition type is < typecnt and every
\* local time type record's designation index is < charcnt.
C7_IndicesInRange ==
    (op = "read" /\ outcome = "ok") =>
        /\ \A i \in 1..Len(self.transition_types.val) :
              self.transition_types.val[i] < self.typecnt
        /\ \A i \in 1..Len(self.local_time_type_records.val) :
              self.local_time_type_records.val[i][3] < self.charcnt

\* the document the second header h and its data block blk (of BlockLen(h, 8)
\* bytes) describe, the rest of the file being the footer
SecondTable(h, blk, footer) ==
    LET o1 == h.timecnt * 8
        o2 == o1 + h.timecnt
        o3 == o2 + h.typecnt * 6
        o4 == o3 + h.charcnt
        o5 == o4 + h.leapcnt * 12
        o6 == o5 + h.isstdcnt
        opt(n, v) == IF n = 0 THEN None ELSE v
    IN  [version |-> h.ver,
         isutcnt |-> h.isutcnt, isstdcnt |-> h.isstdcnt, leapcnt |-> h.leapcnt,
         timecnt |-> h.timecnt, typecnt |-> h.typecnt, charcnt |-> h.charcnt,
         transition_times |->
             opt(h.timecnt, PyTuple([i \in 1..h.timecnt |->
                 be_int(SubSeq(blk, (i - 1) * 8 + 1, i * 8))])),
         transition_types |-> opt(h.timecnt, PyTuple(SubSeq(blk, o1 + 1, o2))),
         local_time_type_records |->
             opt(h.typecnt, PyTuple([i \in 1..h.typecnt |->
                 <<be_int(SubSeq(blk, o2 + (i - 1) * 6 + 1, o2 + (i - 1) * 6 + 4)),
                   blk[o2 + (i - 1) * 6 + 5], blk[o2 + (i - 1) * 6 + 6]>>])),
         time_zone_designations |-> opt(h.charcnt, PyBytes(SubSeq(blk, o3 + 1, o4))),
         leap_seconds_records |->
             opt(h.leapcnt, PyTuple([i \in 1..h.leapcnt |->
                 <<be_int(SubSeq(blk, o4 + (i - 1) * 12 + 1, o4 + (i - 1) * 12 + 8)),
                   be_int(SubSeq(blk, o4 + (i - 1) * 12 + 9, o4 + i * 12))>>])),
         standard_wall_indicators |-> opt(h.isstdcnt, PyTuple(SubSeq(blk, o5 + 1, o6))),
         ut_local_indicators |->
             opt(h.isutcnt, PyTuple(SubSeq(blk, o6 + 1, o6 + h.isutcnt))),
         tz_strings |-> PyBytes(footer)]

\* C8: a successful read() of a file whose first header has version '2' or
\* '3' leaves exactly the second table: the second header's counts, the
\* arrays of the len8(H2) bytes after it decoded with 8-byte times, and as
\* tz_strings all bytes after them.
C8_SecondTableAuthoritative ==
    (op = "read" /\ outcome = "ok" /\ Len(buf) > HEADER_LEN /\ buf[5] \in {VER_2, VER_3}) =>
        /\ TwoHeaders(buf)
        /\ Len(buf) >= SecondBlockEnd(buf)
        /\ self = SecondTable(SecondHeader(buf),
                              SubSeq(buf, SecondBlockAt(buf) + 1, SecondBlockEnd(buf)),
                              SubSeq(buf, SecondBlockEnd(buf) + 1, Len(buf)))

\* C8 for the files that hold their whole second data block
C8_WholeFiles ==
    (op = "read" /\ outcome = "ok" /\ Len(buf) > HEADER_LEN /\ buf[5] \in {VER_2, VER_3}
       /\ TwoHeaders(buf) /\ Len(buf) >= SecondBlockEnd(buf)) =>
        self = SecondTable(SecondHeader(buf),
                           SubSeq(buf, SecondBlockAt(buf) + 1, SecondBlockEnd(buf)),
                           SubSeq(buf, SecondBlockEnd(buf) + 1, Len(buf)))

----------------------------------------------------------------------------
(* Claims about the queries *)

times_val == self.transition_times.val

StrictlyAscending(ts) == \A i \in 1..(Len(ts) - 1) : ts[i] < ts[i + 1]

NonDecreasing(ts) == \A i \in 1..(Len(ts) - 1) : ts[i] <= ts[i + 1]

SearchDone == op = "get_transition_index" /\ outcome # "running"

\* C1: on a strictly ascending table of length >= 1, get_transition_index(t)
\* returns -1 exactly when t < times[0], and otherwise the one index i with
\* times[i] <= t and, when i+1 < timecnt, t < times[i+1]; so it returns k for
\* t = times[k].
C1_SearchOnAscending ==
    (SearchDone /\ self.timecnt >= 1 /\ StrictlyAscending(times_val)) =>
        /\ outcome = "ok"
        /\ (ret = -1) <=> (arg < times_val[1])
        /\ arg >= times_val[1] =>
              /\ ret \in 0..(self.timecnt - 1)
              /\ times_val[ret + 1] <= arg
              /\ (ret + 1 < self.timecnt => arg < times_val[ret + 2])
        /\ \A k \in 0..(self.timecnt - 1) : arg = times_val[k + 1] => ret = k

\* a bisection between two inner transitions of a strictly ascending table
C1_Witness ==
    /\ SearchDone /\ outcome = "ok"
    /\ self.timecnt >= 4 /\ StrictlyAscending(times_val)
    /\ depth >= 2
    /\ ret = 1 /\ arg = times_val[2]

\* C9: on a non-decreasing table (equal neighbours allowed) and for
\* t >= times[0], get_transition_index(t) returns the largest index i with
\* times[i] <= t.
C9_MaximalIndexOnNonDecreasing ==
    (SearchDone /\ self.timecnt >= 1 /\ NonDecreasing(times_val) /\ arg >= times_val[1]) =>
        /\ outcome = "ok"
        /\ ret \in 0..(self.timecnt - 1)
        /\ times_val[ret + 1] <= arg
        /\ \A i \in 0..(self.timecnt - 1) : times_val[i + 1] <= arg => i <= ret

RECURSIVE CeilLog2(_)
CeilLog2(n) == IF n <= 1 THEN 0 ELSE 1 + CeilLog2((n + 1) \div 2)

\* C10: on any table of length >= 1, sorted or not, every call of the search
\* has 0 <= begin <= end <= timecnt-1, a recursive call has a smaller
\* end - begin than its caller, the calls nest at most ceil(log2(timecnt)) + 1
\* deep (so the search ends), and no index outside 0..timecnt-1 is read.
C10_SearchTerminates ==
    (op = "get_transition_index" /\ self.timecnt >= 1) =>
        /\ 0 <= begin /\ begin <= end /\ end <= self.timecnt - 1
        /\ depth >= 2 => end - begin < caller_span
        /\ depth <= CeilLog2(self.timecnt) + 1
        /\ depth <= MaxDepth
        /\ read_idx \subseteq 0..(self.timecnt - 1)
        /\ outcome # "error"

\* a search on an unsorted table that returned from a call as deep as allowed
C10_Witness ==
    /\ SearchDone /\ outcome = "ok"
    /\ self.timecnt >= 4 /\ ~NonDecreasing(times_val)
    /\ depth = CeilLog2(self.timecnt) + 1

AccessorNames ==
    {"get_transition_offset", "get_transition_isdst", "get_transition_desig_index"}

\* C3: an accessor given the sentinel get_transition_index returned, for no
\* transitions at all or for a timestamp before the first transition,
\* returns the field of a default local time type record: it neither raises
\* nor returns the 0 of a missing record.
C3_SentinelResolvesToDefaultRecord ==
    (op \in AccessorNames /\ arg = -1) =>
        /\ outcome = "ok"
        /\ ~PyEq(local_time_type, None)
        /\ ret = PyIndex(local_time_type, column)

\* the decimal digits of n, at least two of them
RECURSIVE Decimal(_)
Decimal(n) == IF n < 100 THEN TwoDigits(n) ELSE Append(Decimal(n \div 10), DigitChars[(n % 10) + 1])

Abs(n) == IF n < 0 THEN -n ELSE n

\* C2: utoff_strftime(u) is the sign of u, '-' below 0 and '+' otherwise,
\* then |u| as an elapsed duration HH:MM:SS with HH = |u| div 3600 (not
\* reduced modulo 24), MM = (|u| div 60) mod 60, SS = |u| mod 60.
C2_SignedElapsedDuration ==
    op = "utoff_strftime" =>
        text = <<IF arg < 0 THEN "-" ELSE "+">>
                 \o Decimal(Abs(arg) \div 3600) \o <<":">>
                 \o TwoDigits((Abs(arg) \div 60) % 60) \o <<":">>
                 \o TwoDigits(Abs(arg) % 60)

\* C2 for the offsets of 0 to 24 hours less a second, which the code formats
\* as claimed
C2_WithinOneDay ==
    (op = "utoff_strftime" /\ 0 <= arg /\ arg < 86400) =>
        text = <<"+">> \o TwoDigits(arg \div 3600) \o <<":">>
                 \o TwoDigits((arg \div 60) % 60) \o <<":">> \o TwoDigits(arg % 60)

====
